---- MODULE Spec2Model ----
(***************************************************************************)
(* Model of momu::skip_list::SkipList (src/skip_list.h) and of             *)
(* xsf_skip_list::XSFSkipList (src/xsf_skip_list.h).                       *)
(*                                                                         *)
(* Spec      one caller invoking the public operations of one SkipList,    *)
(*           each operation one atomic step (the whole handler).           *)
(* ConcSpec  threads invoking put/get/contains/remove on one shared        *)
(*           SkipList; every operation is split at the statements of its   *)
(*           body, the std::lock_guard included.                           *)
(* XSFSpec   threads invoking insert_element/delete_element/search_element *)
(*           on one shared XSFSkipList, split the same way.                *)
(***************************************************************************)
EXTENDS Integers, Sequences, FiniteSets, TLC

(***************************************************************************)
(* Bounds of the model.                                                    *)
(***************************************************************************)
\* the max_level argument handed to the constructor
MaxLevel == 2
\* keys are 1..MaxKey
MaxKey == 3
\* the threads of ConcSpec and XSFSpec are 1..NumThreads
NumThreads == 2

Keys == 1 .. MaxKey
Threads == 1 .. NumThreads
\* V is opaque to the list: two values tell an overwrite from a no-op
Values == {"a", "b"}

(***************************************************************************)
(* Memory.  Addresses are small integers; 0 is the null pointer, the       *)
(* header is the first object the constructor allocates.  A list only      *)
(* stores, compares and dereferences the addresses operator new returns,   *)
(* so which free address it returns is left to one fixed allocator: the    *)
(* address after the header's at distance key if that is free, else the    *)
(* lowest free one.  A freed address is reused.                            *)
(***************************************************************************)
nullptr == 0
header_ == 1
\* one address more than the keys can occupy, so that a duplicated key
\* would still find room
NodeAddrs == 2 .. (MaxKey + 2)
Addrs == {header_} \cup NodeAddrs
\* K{} and V{}: the header's key and value
DefaultKey == 0
DefaultValue == ""
\* std::nullopt, no value
nullopt == "nullopt"

max_level_ == MaxLevel

VARIABLES
    heap,               \* Addrs -> Node: key_, value_, forward_ (0..level -> pointer)
    allocated,          \* the addresses that hold a live Node
    current_max_level_, \* SkipList::current_max_level_
    element_count_,     \* SkipList::element_count_
    lastOp,             \* Spec: the operation just completed, with its result
    mutex_,             \* SkipList::mutex_: Unlocked, or the thread that holds it
    pc,                 \* ConcSpec: where each thread stands
    loc,                \* ConcSpec: each thread's arguments and locals
    range,              \* ConcSpec: the keys each thread uses
    written,            \* ConcSpec, RefSpec: per key, what its last caller asked for
    skip_list_level_,   \* XSFSkipList::skip_list_level_
    mtx,                \* xsf_skip_list::mtx: Unlocked, or the thread that holds it
    list_class,         \* the class the list is an instance of
    gen_,               \* RngSpec: SkipList::gen_ of each instance
    rand_state,         \* RngSpec: the state of the C library's rand()
    levels,             \* RngSpec: per instance, the levels of its insertions
    loop                \* LoopSpec: a list of any max_level, by its counters only

listVars == <<heap, allocated, current_max_level_, element_count_>>
threadVars == <<mutex_, pc, loc, range, written>>
\* what no operation of the list of max_level_ levels writes
fixedVars == <<list_class, loop>>
\* the generators' states, which only RngSpec follows: everywhere else a
\* draw is any coin flip
rngVars == <<gen_, rand_state, levels>>
xsfVars == <<skip_list_level_, mtx, fixedVars, rngVars>>
vars == <<heap, allocated, current_max_level_, element_count_, lastOp,
          mutex_, pc, loc, range, written, skip_list_level_, mtx, list_class,
          gen_, rand_state, levels, loop>>

\* memory that holds no Node
NoNode == [key_ |-> DefaultKey, value_ |-> DefaultValue, forward_ |-> <<>>]

\* Node(key, value, level): forward_(level + 1, nullptr)
Node(key, value, level) ==
    [key_ |-> key, value_ |-> value, forward_ |-> [i \in 0 .. level |-> nullptr]]

\* the list object as one value: what the operators below take and return
This ==
    [heap |-> heap, allocated |-> allocated,
     current_max_level_ |-> current_max_level_, element_count_ |-> element_count_]

(***************************************************************************)
(* Search.                                                                 *)
(***************************************************************************)
\* mutant: advances while the next key is <= key
RECURSIVE move_forward_in_level_Inclusive(_, _, _, _)
move_forward_in_level_Inclusive(h, current, level, key) ==
    IF /\ h[current].forward_[level] # nullptr
       /\ h[h[current].forward_[level]].key_ <= key
    THEN move_forward_in_level_Inclusive(h, h[current].forward_[level], level, key)
    ELSE current

RECURSIVE move_forward_in_level(_, _, _, _)
move_forward_in_level(h, current, level, key) ==
    IF /\ h[current].forward_[level] # nullptr
       /\ h[h[current].forward_[level]].key_ < key
    THEN move_forward_in_level(h, h[current].forward_[level], level, key)
    ELSE current

\* the loop of traverse_and_collect_predecessors, from level i downwards
RECURSIVE CollectFrom(_, _, _, _, _)
CollectFrom(h, current, i, key, predecessors) ==
    IF i < 0 THEN predecessors
    ELSE LET c == move_forward_in_level(h, current, i, key)
         IN CollectFrom(h, c, i - 1, key, [predecessors EXCEPT ![i] = c])

traverse_and_collect_predecessors(S, key, predecessors) ==
    CollectFrom(S.heap, header_, S.current_max_level_, key, predecessors)

find_predecessors(S, key) ==
    traverse_and_collect_predecessors(S, key, [i \in 0 .. max_level_ |-> nullptr])

get_target_node(h, predecessor, key) ==
    LET target == h[predecessor].forward_[0]
    IN IF target # nullptr /\ h[target].key_ = key THEN target ELSE nullptr

\* mutant: takes the level-0 successor without comparing its key
get_node_at_level_zero_AnyKey(h, predecessor, key) == h[predecessor].forward_[0]

get_node_at_level_zero(h, predecessor, key) ==
    LET node == h[predecessor].forward_[0]
    IN IF node # nullptr /\ h[node].key_ = key THEN node ELSE nullptr

\* the loop of traverse_to_level_zero, from level i downwards
RECURSIVE DescendFrom(_, _, _, _)
DescendFrom(h, current, i, key) ==
    IF i < 0 THEN current
    ELSE DescendFrom(h, move_forward_in_level(h, current, i, key), i - 1, key)

\* mutant: the search stops at the top level instead of descending
traverse_to_level_zero_TopOnly(S, key) ==
    get_target_node(S.heap,
                    move_forward_in_level(S.heap, header_, S.current_max_level_, key), key)

traverse_to_level_zero(S, key) ==
    get_target_node(S.heap, DescendFrom(S.heap, header_, S.current_max_level_, key), key)

find_node(S, key) == traverse_to_level_zero(S, key)

(***************************************************************************)
(* put.                                                                    *)
(***************************************************************************)
\* uint8_t counters wrap at 2^8
Uint8Range == 256
Uint8(n) == n % Uint8Range

\* mutant: the value is not written
update_existing_node_Dropped(h, node, value) == h

update_existing_node(h, node, value) == [h EXCEPT ![node].value_ = value]

\* flips[j] is the outcome of the j-th call of distribution_(gen_); the
\* coin is flipped before level is compared with max_level_
RECURSIVE RandomLevelFrom(_, _)
RandomLevelFrom(flips, level) ==
    IF flips[level + 1] /\ level < max_level_
    THEN RandomLevelFrom(flips, Uint8(level + 1))
    ELSE level

generate_random_level(flips) == RandomLevelFrom(flips, 0)

\* the number of calls of distribution_(gen_) that call makes: one per
\* evaluation of the loop condition
DrawsOf(flips) == generate_random_level(flips) + 1

\* the outcomes of the coin flips one call can draw: it stops drawing at the
\* first failure, and after flip max_level_ + 1 whatever that one shows
\* (the flips it does not draw are written FALSE)
CoinFlips ==
    {flips \in [1 .. (max_level_ + 1) -> BOOLEAN] :
        \A j \in 1 .. max_level_ : ~flips[j] => ~flips[j + 1]}

\* the loop of adjust_max_level_for_insertion, from level i upwards
RECURSIVE FillHeaderFrom(_, _, _)
FillHeaderFrom(predecessors, i, new_level) ==
    IF i <= new_level
    THEN FillHeaderFrom([predecessors EXCEPT ![i] = header_], Uint8(i + 1), new_level)
    ELSE predecessors

\* mutant: the entries above the old current_max_level_ are left null
adjust_max_level_for_insertion_NoFill(cml, new_level, predecessors) ==
    [predecessors |-> predecessors,
     current_max_level_ |-> IF new_level > cml THEN new_level ELSE cml]

\* returns the predecessors it rewrites and the new current_max_level_
adjust_max_level_for_insertion(cml, new_level, predecessors) ==
    IF new_level > cml
    THEN [predecessors |-> FillHeaderFrom(predecessors, Uint8(cml + 1), new_level),
          current_max_level_ |-> new_level]
    ELSE [predecessors |-> predecessors, current_max_level_ |-> cml]

\* operator new for the Node of key: a free address
NewAddr(alloc, key) ==
    IF header_ + key \notin alloc
    THEN header_ + key
    ELSE CHOOSE a \in NodeAddrs \ alloc : \A b \in NodeAddrs \ alloc : a <= b

create_node(h, addr, key, value, level) == [h EXCEPT ![addr] = Node(key, value, level)]

\* mutant: the predecessor's link is overwritten before it is read
SpliceLevel_WriteFirst(h, node, predecessors, i) ==
    LET h1 == [h EXCEPT ![predecessors[i]].forward_[i] = node]
    IN [h1 EXCEPT ![node].forward_[i] = h1[predecessors[i]].forward_[i]]

\* one iteration of the loop of insert_node_at_all_levels: the node's link
\* is read from the predecessor before the predecessor's link is overwritten
SpliceLevel(h, node, predecessors, i) ==
    LET h1 == [h EXCEPT ![node].forward_[i] = h[predecessors[i]].forward_[i]]
    IN [h1 EXCEPT ![predecessors[i]].forward_[i] = node]

RECURSIVE SpliceFrom(_, _, _, _, _)
SpliceFrom(h, node, predecessors, i, level) ==
    IF i <= level
    THEN SpliceFrom(SpliceLevel(h, node, predecessors, i), node, predecessors,
                    Uint8(i + 1), level)
    ELSE h

\* mutant: the node is linked at level 0 only
insert_node_at_all_levels_BottomOnly(h, node, predecessors, level) ==
    SpliceFrom(h, node, predecessors, 0, 0)

insert_node_at_all_levels(h, node, predecessors, level) ==
    SpliceFrom(h, node, predecessors, 0, level)

insert_new_node(S, key, value, predecessors, flips) ==
    LET new_level == generate_random_level(flips)
        adj == adjust_max_level_for_insertion(S.current_max_level_, new_level, predecessors)
        new_node == NewAddr(S.allocated, key)
        h1 == create_node(S.heap, new_node, key, value, new_level)
        h2 == insert_node_at_all_levels(h1, new_node, adj.predecessors, new_level)
    IN [heap |-> h2,
        allocated |-> S.allocated \cup {new_node},
        current_max_level_ |-> adj.current_max_level_,
        element_count_ |-> S.element_count_ + 1]

\* mutant: a node is inserted whether or not the key is present
put_AlwaysInsert(S, key, value, flips) ==
    [list |-> insert_new_node(S, key, value, find_predecessors(S, key), flips),
     draws |-> DrawsOf(flips)]

\* SkipList::put: the list it leaves and the coin flips it drew
put(S, key, value, flips) ==
    LET predecessors == find_predecessors(S, key)
        existing_node == get_node_at_level_zero(S.heap, predecessors[0], key)
    IN IF existing_node # nullptr
       THEN [list |-> [S EXCEPT !.heap = update_existing_node(S.heap, existing_node, value)],
             draws |-> 0]
       ELSE [list |-> insert_new_node(S, key, value, predecessors, flips),
             draws |-> DrawsOf(flips)]

(***************************************************************************)
(* get, contains, size, empty.                                             *)
(***************************************************************************)
get(S, key) ==
    LET node == find_node(S, key)
    IN IF node # nullptr THEN S.heap[node].value_ ELSE nullopt

contains(S, key) == find_node(S, key) # nullptr

size(S) == S.element_count_

empty(S) == S.element_count_ = 0

(***************************************************************************)
(* remove.                                                                 *)
(***************************************************************************)
\* mutant: the node is unlinked at level 0 only
DisconnectLevel_BottomOnly(h, node, predecessors, i) ==
    IF i = 0 /\ h[predecessors[i]].forward_[i] = node
    THEN [h EXCEPT ![predecessors[i]].forward_[i] = h[node].forward_[i]]
    ELSE h

\* one iteration of the loop of disconnect_node_from_levels
DisconnectLevel(h, node, predecessors, i) ==
    IF h[predecessors[i]].forward_[i] = node
    THEN [h EXCEPT ![predecessors[i]].forward_[i] = h[node].forward_[i]]
    ELSE h

RECURSIVE DisconnectFrom(_, _, _, _, _)
DisconnectFrom(h, node, predecessors, i, cml) ==
    IF i <= cml
    THEN DisconnectFrom(DisconnectLevel(h, node, predecessors, i), node, predecessors,
                        Uint8(i + 1), cml)
    ELSE h

disconnect_node_from_levels(S, node, predecessors) ==
    DisconnectFrom(S.heap, node, predecessors, 0, S.current_max_level_)

\* mutant: element_count_ is not decremented
delete_node_NoCount(S, node, predecessors) ==
    [S EXCEPT !.heap = [disconnect_node_from_levels(S, node, predecessors)
                            EXCEPT ![node] = NoNode],
              !.allocated = S.allocated \ {node}]

\* delete node: the memory no longer holds a Node.  element_count_ is a
\* size_t; its values are written as their representatives nearest to 0, so
\* that 0 - 1 (SIZE_MAX) reads -1
delete_node(S, node, predecessors) ==
    [S EXCEPT !.heap = [disconnect_node_from_levels(S, node, predecessors)
                            EXCEPT ![node] = NoNode],
              !.allocated = S.allocated \ {node},
              !.element_count_ = S.element_count_ - 1]

RECURSIVE ShrinkFrom(_, _)
ShrinkFrom(h, cml) ==
    IF cml > 0 /\ h[header_].forward_[cml] = nullptr
    THEN ShrinkFrom(h, cml - 1)
    ELSE cml

\* mutant: current_max_level_ is never lowered
adjust_max_level_Kept(S) == S

adjust_max_level(S) ==
    [S EXCEPT !.current_max_level_ = ShrinkFrom(S.heap, S.current_max_level_)]

\* mutant: element_count_ is decremented before the node is looked for
remove_CountsMiss(S, key) ==
    LET predecessors == find_predecessors(S, key)
        node_to_delete == get_node_at_level_zero(S.heap, predecessors[0], key)
    IN IF node_to_delete = nullptr
       THEN [list |-> [S EXCEPT !.element_count_ = S.element_count_ - 1], ret |-> FALSE]
       ELSE [list |-> adjust_max_level(delete_node(S, node_to_delete, predecessors)),
             ret |-> TRUE]

\* SkipList::remove: the list it leaves and the value it returns
remove(S, key) ==
    LET predecessors == find_predecessors(S, key)
        node_to_delete == get_node_at_level_zero(S.heap, predecessors[0], key)
    IN IF node_to_delete = nullptr
       THEN [list |-> S, ret |-> FALSE]
       ELSE [list |-> adjust_max_level(delete_node(S, node_to_delete, predecessors)),
             ret |-> TRUE]

(***************************************************************************)
(* Spec: one caller, every public operation one step.                      *)
(***************************************************************************)
\* SkipList(max_level, seed): the header with max_level + 1 null links
create_header_node == Node(DefaultKey, DefaultValue, max_level_)

NewList ==
    [heap |-> [a \in Addrs |-> IF a = header_ THEN create_header_node ELSE NoNode],
     allocated |-> {header_},
     current_max_level_ |-> 0,
     element_count_ |-> 0]

Install(S) ==
    /\ heap' = S.heap
    /\ allocated' = S.allocated
    /\ current_max_level_' = S.current_max_level_
    /\ element_count_' = S.element_count_

(***************************************************************************)
(* What a list looks like from outside: its chains.                        *)
(***************************************************************************)
\* the level of a Node: forward_.size() - 1
LevelOf(h, node) == Cardinality(DOMAIN h[node].forward_) - 1

\* the addresses met following forward_[i] from node, at most fuel of them
\* (a chain with a cycle is cut after it has repeated a node)
RECURSIVE ChainFrom(_, _, _, _)
ChainFrom(h, node, i, fuel) ==
    IF node = nullptr \/ fuel = 0 THEN <<>>
    ELSE <<node>> \o ChainFrom(h, h[node].forward_[i], i, fuel - 1)

\* the level-i chain, the header excluded
Chain(h, i) == ChainFrom(h, h[header_].forward_[i], i, Cardinality(Addrs) + 1)

KeysOf(h, chain) == {h[chain[j]].key_ : j \in 1 .. Len(chain)}

\* the nodes of the level-0 chain that hold key (none: the key is absent)
RECURSIVE HoldersFrom(_, _, _, _)
HoldersFrom(h, node, key, fuel) ==
    IF node = nullptr \/ fuel = 0 THEN {}
    ELSE (IF h[node].key_ = key THEN {node} ELSE {})
         \cup HoldersFrom(h, h[node].forward_[0], key, fuel - 1)

Holders(h, key) == HoldersFrom(h, h[header_].forward_[0], key, Cardinality(Addrs) + 1)

Present(h, key) == Holders(h, key) # {}

(***************************************************************************)
(* Spec: one caller, every public operation one step.                      *)
(***************************************************************************)
\* what the caller saw: the operation, its arguments, and what it returned
\* (got: the optional of get; ok: the bool of contains, remove and empty;
\* n: the size_t of size); what held when it was called (was: key was on the
\* level-0 chain; n0: element_count_); the number of coin flips it drew; and
\* what it did to the list, post being the list it left (same: the nodes,
\* their keys and links, current_max_level_ and element_count_ are as they
\* were; values: the nodes whose value differs)
Op(name, key, value, got, ok, n, draws, post) ==
    [op |-> name, key |-> key, value |-> value, got |-> got, ok |-> ok, n |-> n,
     was |-> Present(heap, key), n0 |-> element_count_, draws |-> draws,
     same |-> /\ post.allocated = allocated
              /\ post.current_max_level_ = current_max_level_
              /\ post.element_count_ = element_count_
              /\ \A a \in Addrs : /\ post.heap[a].key_ = heap[a].key_
                                  /\ post.heap[a].forward_ = heap[a].forward_,
     values |-> {a \in Addrs : post.heap[a].value_ # heap[a].value_}]

\* std::mutex, not held
Unlocked == 0

\* a thread outside every operation: its locals are dead
NoLocals ==
    [key |-> 0, value |-> DefaultValue,
     predecessors |-> [i \in 0 .. max_level_ |-> nullptr],
     node |-> nullptr, new_level |-> 0, i |-> 0]

NoOp == [op |-> "none", key |-> 0, value |-> DefaultValue, got |-> nullopt,
         ok |-> FALSE, n |-> 0, was |-> FALSE, n0 |-> 0, draws |-> 0,
         same |-> TRUE, values |-> {}]

\* no list but the one of max_level_ levels: its counters are in
\* current_max_level_, element_count_ and loc
NoLoop ==
    [max_level_ |-> max_level_, current_max_level_ |-> 0, element_count_ |-> 0,
     new_level |-> 0, at |-> "idle", i |-> 0, iterations |-> 0]

\* the generators are not followed
NoRng ==
    /\ gen_ = <<>>
    /\ rand_state = 0
    /\ levels = <<>>

InitList ==
    /\ heap = NewList.heap
    /\ allocated = NewList.allocated
    /\ current_max_level_ = NewList.current_max_level_
    /\ element_count_ = NewList.element_count_

Init ==
    /\ InitList
    /\ lastOp = NoOp
    /\ mutex_ = Unlocked
    /\ pc = [t \in Threads |-> "idle"]
    /\ loc = [t \in Threads |-> NoLocals]
    /\ range = [t \in Threads |-> {}]
    /\ written = [k \in Keys |-> nullopt]
    /\ skip_list_level_ = 0
    /\ mtx = Unlocked
    /\ list_class = "SkipList"
    /\ NoRng
    /\ loop = NoLoop

\* put draws coins only on its insert path: where it updates, the one
\* sequence of undrawn flips stands for all
Put(key, value) ==
    \E flips \in (IF contains(This, key) THEN {[j \in 1 .. (max_level_ + 1) |-> FALSE]}
                  ELSE CoinFlips) :
        \E r \in {put(This, key, value, flips)} :
           /\ Install(r.list)
           /\ lastOp' = Op("put", key, value, nullopt, FALSE, 0, r.draws, r.list)
           /\ UNCHANGED <<threadVars, xsfVars>>

Get(key) ==
    /\ lastOp' = Op("get", key, DefaultValue, get(This, key), FALSE, 0, 0, This)
    /\ UNCHANGED <<listVars, threadVars, xsfVars>>

Contains(key) ==
    /\ lastOp' = Op("contains", key, DefaultValue, nullopt, contains(This, key), 0, 0, This)
    /\ UNCHANGED <<listVars, threadVars, xsfVars>>

Remove(key) ==
    \E r \in {remove(This, key)} :
       /\ Install(r.list)
       /\ lastOp' = Op("remove", key, DefaultValue, nullopt, r.ret, 0, 0, r.list)
       /\ UNCHANGED <<threadVars, xsfVars>>

Size ==
    /\ lastOp' = Op("size", 0, DefaultValue, nullopt, FALSE, size(This), 0, This)
    /\ UNCHANGED <<listVars, threadVars, xsfVars>>

Empty ==
    /\ lastOp' = Op("empty", 0, DefaultValue, nullopt, empty(This), 0, 0, This)
    /\ UNCHANGED <<listVars, threadVars, xsfVars>>

Next ==
    \/ \E key \in Keys, value \in Values : Put(key, value)
    \/ \E key \in Keys : Get(key)
    \/ \E key \in Keys : Contains(key)
    \/ \E key \in Keys : Remove(key)
    \/ Size
    \/ Empty

Spec == Init /\ [][Next]_vars

(***************************************************************************)
(* Claims checked under Spec.                                              *)
(***************************************************************************)
StrictlyIncreasing(h, chain) ==
    \A j \in 1 .. Len(chain) - 1 : h[chain[j]].key_ < h[chain[j + 1]].key_

\* the nodes of chain whose own level is at least i, in the order of chain
RECURSIVE AtLeastLevel(_, _, _)
AtLeastLevel(h, chain, i) ==
    IF chain = <<>> THEN <<>>
    ELSE (IF LevelOf(h, Head(chain)) >= i THEN <<Head(chain)>> ELSE <<>>)
         \o AtLeastLevel(h, Tail(chain), i)

\* C1 (round trip): in the state a put(k, v) leaves, whether k was absent or
\* present when it was called, get(k) returns v and contains(k) returns true.
C1_RoundTrip ==
    lastOp.op = "put" =>
        /\ get(This, lastOp.key) = lastOp.value
        /\ contains(This, lastOp.key)

\* a put of a new key into a list that already held two keys
C1_Witness ==
    /\ lastOp.op = "put"
    /\ ~lastOp.was
    /\ lastOp.n0 >= 2
    /\ get(This, lastOp.key) = lastOp.value

\* C2 (remove correctness): remove(k) returns true exactly when k was on the
\* level-0 chain when it was called; after it returned true get(k) is empty,
\* contains(k) is false, size() is one less than before, and a remove(k)
\* called next returns false.
C2_RemoveCorrect ==
    lastOp.op = "remove" =>
        /\ lastOp.ok <=> lastOp.was
        /\ lastOp.ok =>
            /\ get(This, lastOp.key) = nullopt
            /\ ~contains(This, lastOp.key)
            /\ size(This) = lastOp.n0 - 1
            /\ ~remove(This, lastOp.key).ret

\* a remove that returned true and left other keys behind
C2_Witness ==
    /\ lastOp.op = "remove"
    /\ lastOp.ok
    /\ lastOp.was
    /\ size(This) >= 1

\* C3 (update, not duplicate): a put(k, v2) on a key that is present leaves
\* get(k) = v2 and changes nothing but the value of the node that holds k:
\* element_count_, the set of nodes, every key, every forward link and
\* current_max_level_ are as before, and no coin is flipped.
C3_UpdateInPlace ==
    (lastOp.op = "put" /\ lastOp.was) =>
        /\ get(This, lastOp.key) = lastOp.value
        /\ size(This) = lastOp.n0
        /\ lastOp.same
        /\ lastOp.values \subseteq Holders(heap, lastOp.key)
        /\ lastOp.draws = 0

\* a put on a present key of a full list
C3_Witness ==
    /\ lastOp.op = "put"
    /\ lastOp.was
    /\ lastOp.n0 = MaxKey
    /\ lastOp.values # {}

\* C4 (remove of an absent key): it returns false and leaves the whole list
\* as it was: nodes, keys, values, links, current_max_level_, element_count_.
C4_RemoveAbsentNoOp ==
    (lastOp.op = "remove" /\ ~lastOp.was) =>
        /\ ~lastOp.ok
        /\ lastOp.same
        /\ lastOp.values = {}

\* a remove of an absent key from a list that holds other keys
C4_Witness ==
    /\ lastOp.op = "remove"
    /\ ~lastOp.was
    /\ ~lastOp.ok
    /\ element_count_ >= 2

\* C5 (order): at every level 0..max_level_ the chain from the header is
\* strictly increasing in key (so it repeats no key and has no cycle).
C5_Ordered ==
    \A i \in 0 .. max_level_ : StrictlyIncreasing(heap, Chain(heap, i))

\* a full list with two nodes on the top level
C5_Witness ==
    /\ Len(Chain(heap, 0)) = MaxKey
    /\ Len(Chain(heap, max_level_)) >= 2

\* C6 (level subsequence): at every level i the chain from the header is the
\* level-0 chain restricted to the nodes of level >= i, in the same order;
\* so the keys of level i + 1 are among the keys of level i.
C6_LevelSubsequence ==
    /\ \A i \in 0 .. max_level_ :
          Chain(heap, i) = AtLeastLevel(heap, Chain(heap, 0), i)
    /\ \A i \in 0 .. max_level_ - 1 :
          KeysOf(heap, Chain(heap, i + 1)) \subseteq KeysOf(heap, Chain(heap, i))

\* a list whose levels differ: a node on level 1 between nodes of level 0
C6_Witness ==
    /\ Len(Chain(heap, 0)) = MaxKey
    /\ Len(Chain(heap, 1)) = 1
    /\ LevelOf(heap, Chain(heap, 0)[1]) = 0
    /\ LevelOf(heap, Chain(heap, 0)[MaxKey]) = 0

\* C7 (count): element_count_, which size() returns, is the number of nodes
\* on the level-0 chain; it is never below 0 (never wraps), and empty() is
\* true exactly when the chain has no node.
C7_Count ==
    /\ size(This) = Len(Chain(heap, 0))
    /\ element_count_ >= 0
    /\ empty(This) <=> Chain(heap, 0) = <<>>

\* a remove has just taken the count down and nodes remain
C7_Witness ==
    /\ lastOp.op = "remove"
    /\ lastOp.ok
    /\ element_count_ = lastOp.n0 - 1
    /\ element_count_ >= 1

(***************************************************************************)
(* ConcSpec: threads on one shared SkipList.  A thread calls put, get,     *)
(* contains or remove with a key of its range, until all are joined.  An   *)
(* operation is a sequence of steps: the lock_guard's constructor (with    *)
(* the call), the statements of the body, the lock_guard's destructor      *)
(* (with the return).  A step that dereferences a null pointer or indexes  *)
(* forward_ outside its size ends the thread ("crashed").                  *)
(***************************************************************************)
\* mutant: the operation runs without taking the mutex
lock_guard_Missing(t) == UNCHANGED mutex_

\* mutant: the mutex is taken without waiting for it to be free
lock_guard_NoWait(t) == mutex_' = t

\* std::lock_guard<std::mutex> lock(mutex_): waits until the mutex is free

lock_guard(t) ==
    /\ mutex_ = Unlocked
    /\ mutex_' = t

\* mutant: the guard goes out of scope without unlocking
unlock_guard_Kept(t) == UNCHANGED mutex_

\* ~lock_guard(): mutex_.unlock()
unlock_guard(t) == mutex_' = Unlocked

\* the ranges of the threads: key k belongs to thread ((k - 1) mod N) + 1
OwnRange == [t \in Threads |-> {k \in Keys : ((k - 1) % NumThreads) + 1 = t}]
\* or every thread uses, besides its own keys, the first key
SharedRange == [t \in Threads |-> OwnRange[t] \cup {1}]

Disjoint(r) == \A t, u \in Threads : t # u => r[t] \cap r[u] = {}

ConcInit ==
    /\ InitList
    /\ lastOp = NoOp
    /\ mutex_ = Unlocked
    /\ pc = [t \in Threads |-> "idle"]
    /\ loc = [t \in Threads |-> NoLocals]
    /\ range \in {OwnRange, SharedRange}
    /\ written = [k \in Keys |-> nullopt]
    /\ skip_list_level_ = 0
    /\ mtx = Unlocked
    /\ list_class = "SkipList"
    /\ NoRng
    /\ loop = NoLoop

\* p->forward_[i] can be read or written
Valid(h, p, i) == p # nullptr /\ i \in DOMAIN h[p].forward_

Goto(t, label) == pc' = [pc EXCEPT ![t] = label]

Call(t, label, key, value) ==
    /\ pc[t] = "idle"
    /\ key \in range[t]
    /\ lock_guard(t)
    /\ Goto(t, label)
    /\ loc' = [loc EXCEPT ![t] = [NoLocals EXCEPT !.key = key, !.value = value]]
    /\ UNCHANGED <<listVars, lastOp, range, xsfVars>>

\* put(key, value): line 52
CallPut(t, key, value) ==
    /\ Call(t, "put_find", key, value)
    /\ written' = [written EXCEPT ![key] = value]

\* lines 54-57
PutFind(t) ==
    /\ pc[t] = "put_find"
    /\ LET predecessors == find_predecessors(This, loc[t].key)
           existing_node == get_node_at_level_zero(heap, predecessors[0], loc[t].key)
       IN /\ loc' = [loc EXCEPT ![t].predecessors = predecessors,
                                ![t].node = existing_node]
          /\ Goto(t, IF existing_node # nullptr THEN "put_update" ELSE "put_level")
    /\ UNCHANGED <<listVars, lastOp, mutex_, range, written, xsfVars>>

\* line 58
PutUpdate(t) ==
    /\ pc[t] = "put_update"
    /\ heap' = update_existing_node(heap, loc[t].node, loc[t].value)
    /\ Goto(t, "unlock")
    /\ UNCHANGED <<allocated, current_max_level_, element_count_, lastOp,
                   mutex_, loc, range, written, xsfVars>>

\* lines 162-164
PutLevel(t) ==
    /\ pc[t] = "put_level"
    /\ \E flips \in CoinFlips :
        LET new_level == generate_random_level(flips)
            adj == adjust_max_level_for_insertion(current_max_level_, new_level,
                                                  loc[t].predecessors)
        IN /\ current_max_level_' = adj.current_max_level_
           /\ loc' = [loc EXCEPT ![t].predecessors = adj.predecessors,
                                 ![t].new_level = new_level]
    /\ Goto(t, "put_create")
    /\ UNCHANGED <<heap, allocated, element_count_, lastOp, mutex_, range, written, xsfVars>>

\* line 166
PutCreate(t) ==
    /\ pc[t] = "put_create"
    /\ LET new_node == NewAddr(allocated, loc[t].key)
       IN /\ heap' = create_node(heap, new_node, loc[t].key, loc[t].value,
                                 loc[t].new_level)
          /\ allocated' = allocated \cup {new_node}
          /\ loc' = [loc EXCEPT ![t].node = new_node, ![t].i = 0]
    /\ Goto(t, "put_splice")
    /\ UNCHANGED <<current_max_level_, element_count_, lastOp, mutex_, range, written, xsfVars>>

\* lines 197-200, one iteration
PutSplice(t) ==
    /\ pc[t] = "put_splice"
    /\ LET i == loc[t].i
       IN IF Valid(heap, loc[t].predecessors[i], i) /\ Valid(heap, loc[t].node, i)
          THEN /\ heap' = SpliceLevel(heap, loc[t].node, loc[t].predecessors, i)
               /\ loc' = [loc EXCEPT ![t].i = Uint8(i + 1)]
               /\ Goto(t, IF Uint8(i + 1) <= loc[t].new_level
                          THEN "put_splice" ELSE "put_count")
          ELSE /\ Goto(t, "crashed")
               /\ UNCHANGED <<heap, loc>>
    /\ UNCHANGED <<allocated, current_max_level_, element_count_, lastOp,
                   mutex_, range, written, xsfVars>>

\* line 169
PutCount(t) ==
    /\ pc[t] = "put_count"
    /\ element_count_' = element_count_ + 1
    /\ Goto(t, "unlock")
    /\ UNCHANGED <<heap, allocated, current_max_level_, lastOp, mutex_, loc,
                   range, written, xsfVars>>

\* get(key): line 65
CallGet(t, key) ==
    /\ Call(t, "get_find", key, DefaultValue)
    /\ UNCHANGED written

\* lines 67-71
GetFind(t) ==
    /\ pc[t] = "get_find"
    /\ loc' = [loc EXCEPT ![t].value = get(This, loc[t].key)]
    /\ Goto(t, "unlock")
    /\ UNCHANGED <<listVars, lastOp, mutex_, range, written, xsfVars>>

\* contains(key): line 75
CallContains(t, key) ==
    /\ Call(t, "contains_find", key, DefaultValue)
    /\ UNCHANGED written

\* line 76
ContainsFind(t) ==
    /\ pc[t] = "contains_find"
    /\ loc' = [loc EXCEPT ![t].node = find_node(This, loc[t].key)]
    /\ Goto(t, "unlock")
    /\ UNCHANGED <<listVars, lastOp, mutex_, range, written, xsfVars>>

\* remove(key): line 80
CallRemove(t, key) ==
    /\ Call(t, "remove_find", key, DefaultValue)
    /\ written' = [written EXCEPT ![key] = nullopt]

\* lines 82-87
RemoveFind(t) ==
    /\ pc[t] = "remove_find"
    /\ LET predecessors == find_predecessors(This, loc[t].key)
           node_to_delete == get_node_at_level_zero(heap, predecessors[0], loc[t].key)
       IN /\ loc' = [loc EXCEPT ![t].predecessors = predecessors,
                                ![t].node = node_to_delete, ![t].i = 0]
          /\ Goto(t, IF node_to_delete = nullptr THEN "unlock" ELSE "remove_disconnect")
    /\ UNCHANGED <<listVars, lastOp, mutex_, range, written, xsfVars>>

\* lines 212-216, one iteration
RemoveDisconnect(t) ==
    /\ pc[t] = "remove_disconnect"
    /\ LET i == loc[t].i
       IN IF /\ Valid(heap, loc[t].predecessors[i], i)
             /\ (heap[loc[t].predecessors[i]].forward_[i] = loc[t].node
                    => Valid(heap, loc[t].node, i))
          THEN /\ heap' = DisconnectLevel(heap, loc[t].node, loc[t].predecessors, i)
               /\ loc' = [loc EXCEPT ![t].i = Uint8(i + 1)]
               /\ Goto(t, IF Uint8(i + 1) <= current_max_level_
                          THEN "remove_disconnect" ELSE "remove_delete")
          ELSE /\ Goto(t, "crashed")
               /\ UNCHANGED <<heap, loc>>
    /\ UNCHANGED <<allocated, current_max_level_, element_count_, lastOp,
                   mutex_, range, written, xsfVars>>

\* lines 206-207
RemoveDelete(t) ==
    /\ pc[t] = "remove_delete"
    /\ heap' = [heap EXCEPT ![loc[t].node] = NoNode]
    /\ allocated' = allocated \ {loc[t].node}
    /\ element_count_' = element_count_ - 1
    /\ Goto(t, "remove_adjust")
    /\ UNCHANGED <<current_max_level_, lastOp, mutex_, loc, range, written, xsfVars>>

\* line 90
RemoveAdjust(t) ==
    /\ pc[t] = "remove_adjust"
    /\ current_max_level_' = adjust_max_level(This).current_max_level_
    /\ Goto(t, "unlock")
    /\ UNCHANGED <<heap, allocated, element_count_, lastOp, mutex_, loc, range, written, xsfVars>>

\* the return: the lock_guard goes out of scope
Return(t) ==
    /\ pc[t] = "unlock"
    /\ unlock_guard(t)
    /\ Goto(t, "idle")
    /\ loc' = [loc EXCEPT ![t] = NoLocals]
    /\ UNCHANGED <<listVars, lastOp, range, written, xsfVars>>

\* every thread has returned from its last call and is joined
JoinAll ==
    /\ \A t \in Threads : pc[t] = "idle"
    /\ pc' = [t \in Threads |-> "done"]
    /\ UNCHANGED <<listVars, lastOp, mutex_, loc, range, written, xsfVars>>

ConcNext ==
    \/ \E t \in Threads, key \in Keys, value \in Values : CallPut(t, key, value)
    \/ \E t \in Threads : PutFind(t)
    \/ \E t \in Threads : PutUpdate(t)
    \/ \E t \in Threads : PutLevel(t)
    \/ \E t \in Threads : PutCreate(t)
    \/ \E t \in Threads : PutSplice(t)
    \/ \E t \in Threads : PutCount(t)
    \/ \E t \in Threads, key \in Keys : CallGet(t, key)
    \/ \E t \in Threads : GetFind(t)
    \/ \E t \in Threads, key \in Keys : CallContains(t, key)
    \/ \E t \in Threads : ContainsFind(t)
    \/ \E t \in Threads, key \in Keys : CallRemove(t, key)
    \/ \E t \in Threads : RemoveFind(t)
    \/ \E t \in Threads : RemoveDisconnect(t)
    \/ \E t \in Threads : RemoveDelete(t)
    \/ \E t \in Threads : RemoveAdjust(t)
    \/ \E t \in Threads : Return(t)
    \/ JoinAll

ConcSpec == ConcInit /\ [][ConcNext]_vars

(***************************************************************************)
(* Claims checked under ConcSpec.                                          *)
(***************************************************************************)
\* the thread is inside an operation: between a call and its return
Inside(t) == pc[t] \notin {"idle", "done", "crashed"}

\* the thread has linked or unlinked its node at some levels and not yet at
\* the others (or not yet freed it)
HalfDone(t) ==
    \/ pc[t] = "put_splice" /\ loc[t].i > 0
    \/ pc[t] = "remove_disconnect" /\ loc[t].i > 0
    \/ pc[t] = "remove_delete"

Survivors == {k \in Keys : written[k] # nullopt}

\* C8 (concurrent net count): threads that use pairwise disjoint key ranges
\* and interleave put/get/contains/remove in any way leave, once all have
\* completed, size() equal to the number of keys put and not removed
\* afterwards by their owner, and get returns for each of these keys the
\* value its owner wrote last (and nothing for the others).
C8_NetCount ==
    ((\A t \in Threads : pc[t] = "done") /\ Disjoint(range)) =>
        /\ size(This) = Cardinality(Survivors)
        /\ \A k \in Keys : get(This, k) = written[k]

\* all threads are done and keys of two different threads survive
C8_Witness ==
    /\ \A t \in Threads : pc[t] = "done"
    /\ Disjoint(range)
    /\ \E k1, k2 \in Survivors :
          \E t1, t2 \in Threads : t1 # t2 /\ k1 \in range[t1] /\ k2 \in range[t2]
    /\ size(This) = Cardinality(Survivors)

\* C9 (mutual exclusion): a thread inside put, get, contains or remove holds
\* mutex_ from before its first access to the list until after its last, so
\* at most one thread is inside an operation, and no thread is inside one
\* while another has a node linked or unlinked at only some of its levels.
C9_MutualExclusion ==
    /\ \A t \in Threads : Inside(t) => mutex_ = t
    /\ \A t, u \in Threads : (Inside(t) /\ Inside(u)) => t = u
    /\ \A t, u \in Threads : (t # u /\ HalfDone(u)) => ~Inside(t)

\* a thread has spliced its node at level 0 and not yet at level 1, with
\* ranges that share a key
C9_Witness ==
    /\ range = SharedRange
    /\ \E t \in Threads :
        /\ pc[t] = "put_splice"
        /\ loc[t].i = 1
        /\ mutex_ = t
        /\ element_count_ >= 1

(***************************************************************************)
(* XSFSpec: threads on one shared XSFSkipList.  insert_element and         *)
(* delete_element run between mtx.lock() and mtx.unlock(); search_element  *)
(* takes no lock, so its reads are single steps among the writers' steps.  *)
(* A read of memory that has been freed returns an arbitrary value, or     *)
(* ends the thread.  The statements that XSFSkipList shares with SkipList  *)
(* are modelled by the same operators.                                     *)
(***************************************************************************)
\* mtx.lock()
mtx_lock(t) ==
    /\ mtx = Unlocked
    /\ mtx' = t

\* mtx.unlock()
mtx_unlock(t) == mtx' = Unlocked

\* get_random_level: the loop on an int k, one rand() per test of its condition
RECURSIVE get_random_level_from(_, _)
get_random_level_from(flips, k) ==
    IF flips[k + 1] /\ k < max_level_
    THEN get_random_level_from(flips, k + 1)
    ELSE k

get_random_level(flips) == get_random_level_from(flips, 0)

\* the search loop of insert_element and delete_element: update[]
xsf_update(key) ==
    CollectFrom(heap, header_, skip_list_level_, key, [i \in 0 .. max_level_ |-> nullptr])

\* the loop of insert_element that makes the header the predecessor at the
\* new levels
RECURSIVE xsf_fill_from(_, _, _)
xsf_fill_from(update, i, new_node_level) ==
    IF i < new_node_level + 1
    THEN xsf_fill_from([update EXCEPT ![i] = header_], i + 1, new_node_level)
    ELSE update

\* what a read of p->forward_[i] can return
ReadForward(p, i) ==
    IF p \in allocated /\ i \in DOMAIN heap[p].forward_
    THEN {heap[p].forward_[i]}
    ELSE Addrs \cup {nullptr}

\* what a read of p->get_key() can return
ReadKey(p) == IF p \in allocated THEN {heap[p].key_} ELSE Keys \cup {DefaultKey}

\* what a read of p->get_value() can return
ReadValue(p) == IF p \in allocated THEN {heap[p].value_} ELSE Values \cup {DefaultValue}

XSFInit ==
    /\ InitList
    /\ lastOp = NoOp
    /\ mutex_ = Unlocked
    /\ pc = [t \in Threads |-> "idle"]
    /\ loc = [t \in Threads |-> NoLocals]
    /\ range = [t \in Threads |-> Keys]
    /\ written = [k \in Keys |-> nullopt]
    /\ skip_list_level_ = 0
    /\ mtx = Unlocked
    /\ list_class = "XSFSkipList"
    /\ NoRng
    /\ loop = NoLoop

xsfFrame == <<current_max_level_, lastOp, mutex_, range, written, fixedVars, rngVars>>

\* insert_element(key, value): line 176
InsCall(t, key, value) ==
    /\ pc[t] = "idle"
    /\ mtx_lock(t)
    /\ Goto(t, "ins_find")
    /\ loc' = [loc EXCEPT ![t] = [NoLocals EXCEPT !.key = key, !.value = value]]
    /\ UNCHANGED <<heap, allocated, element_count_, skip_list_level_, xsfFrame>>

\* lines 178-198
InsFind(t) ==
    /\ pc[t] = "ins_find"
    /\ LET update == xsf_update(loc[t].key)
           current == heap[update[0]].forward_[0]
       IN /\ loc' = [loc EXCEPT ![t].predecessors = update, ![t].node = current]
          /\ Goto(t, IF current # nullptr /\ heap[current].key_ = loc[t].key
                     THEN "ins_update" ELSE "ins_level")
    /\ UNCHANGED <<heap, allocated, element_count_, skip_list_level_, mtx, xsfFrame>>

\* line 200
InsUpdate(t) ==
    /\ pc[t] = "ins_update"
    /\ heap' = [heap EXCEPT ![loc[t].node].value_ = loc[t].value]
    /\ Goto(t, "xsf_unlock")
    /\ UNCHANGED <<allocated, element_count_, skip_list_level_, mtx, loc, xsfFrame>>

\* lines 207-216
InsLevel(t) ==
    /\ pc[t] = "ins_level"
    /\ \E flips \in CoinFlips :
        LET new_node_level == get_random_level(flips)
        IN IF new_node_level > skip_list_level_
           THEN /\ loc' = [loc EXCEPT
                      ![t].predecessors = xsf_fill_from(loc[t].predecessors,
                                                        skip_list_level_ + 1,
                                                        new_node_level),
                      ![t].new_level = new_node_level]
                /\ skip_list_level_' = new_node_level
           ELSE /\ loc' = [loc EXCEPT ![t].new_level = new_node_level]
                /\ UNCHANGED skip_list_level_
    /\ Goto(t, "ins_create")
    /\ UNCHANGED <<heap, allocated, element_count_, mtx, xsfFrame>>

\* line 218
InsCreate(t) ==
    /\ pc[t] = "ins_create"
    /\ LET new_node == NewAddr(allocated, loc[t].key)
       IN /\ heap' = create_node(heap, new_node, loc[t].key, loc[t].value,
                                 loc[t].new_level)
          /\ allocated' = allocated \cup {new_node}
          /\ loc' = [loc EXCEPT ![t].node = new_node, ![t].i = 0]
    /\ Goto(t, "ins_splice")
    /\ UNCHANGED <<element_count_, skip_list_level_, mtx, xsfFrame>>

\* lines 220-225, one iteration
InsSplice(t) ==
    /\ pc[t] = "ins_splice"
    /\ heap' = SpliceLevel(heap, loc[t].node, loc[t].predecessors, loc[t].i)
    /\ loc' = [loc EXCEPT ![t].i = loc[t].i + 1]
    /\ Goto(t, IF loc[t].i + 1 <= loc[t].new_level THEN "ins_splice" ELSE "ins_count")
    /\ UNCHANGED <<allocated, element_count_, skip_list_level_, mtx, xsfFrame>>

\* line 227
InsCount(t) ==
    /\ pc[t] = "ins_count"
    /\ element_count_' = element_count_ + 1
    /\ Goto(t, "xsf_unlock")
    /\ UNCHANGED <<heap, allocated, skip_list_level_, mtx, loc, xsfFrame>>

\* delete_element(key): line 240
DelCall(t, key) ==
    /\ pc[t] = "idle"
    /\ mtx_lock(t)
    /\ Goto(t, "del_find")
    /\ loc' = [loc EXCEPT ![t] = [NoLocals EXCEPT !.key = key]]
    /\ UNCHANGED <<heap, allocated, element_count_, skip_list_level_, xsfFrame>>

\* lines 242-258
DelFind(t) ==
    /\ pc[t] = "del_find"
    /\ LET update == xsf_update(loc[t].key)
           current == heap[update[0]].forward_[0]
       IN /\ loc' = [loc EXCEPT ![t].predecessors = update, ![t].node = current,
                                ![t].i = 0]
          /\ Goto(t, IF current # nullptr /\ heap[current].key_ = loc[t].key
                     THEN "del_unlink" ELSE "xsf_unlock")
    /\ UNCHANGED <<heap, allocated, element_count_, skip_list_level_, mtx, xsfFrame>>

\* lines 260-266, one iteration
DelUnlink(t) ==
    /\ pc[t] = "del_unlink"
    /\ heap' = DisconnectLevel(heap, loc[t].node, loc[t].predecessors, loc[t].i)
    /\ loc' = [loc EXCEPT ![t].i = loc[t].i + 1]
    /\ Goto(t, IF loc[t].i + 1 <= skip_list_level_ THEN "del_unlink" ELSE "del_adjust")
    /\ UNCHANGED <<allocated, element_count_, skip_list_level_, mtx, xsfFrame>>

\* lines 268-271
DelAdjust(t) ==
    /\ pc[t] = "del_adjust"
    /\ skip_list_level_' = ShrinkFrom(heap, skip_list_level_)
    /\ Goto(t, "del_free")
    /\ UNCHANGED <<heap, allocated, element_count_, mtx, loc, xsfFrame>>

\* line 273: delete current (~Node frees forward_ with it)
DelFree(t) ==
    /\ pc[t] = "del_free"
    /\ heap' = [heap EXCEPT ![loc[t].node] = NoNode]
    /\ allocated' = allocated \ {loc[t].node}
    /\ Goto(t, "del_count")
    /\ UNCHANGED <<element_count_, skip_list_level_, mtx, loc, xsfFrame>>

\* line 275
DelCount(t) ==
    /\ pc[t] = "del_count"
    /\ element_count_' = element_count_ - 1
    /\ Goto(t, "xsf_unlock")
    /\ UNCHANGED <<heap, allocated, skip_list_level_, mtx, loc, xsfFrame>>

\* lines 202-203, 229-230, 277: mtx.unlock() and the return
XsfUnlock(t) ==
    /\ pc[t] = "xsf_unlock"
    /\ mtx_unlock(t)
    /\ Goto(t, "idle")
    /\ loc' = [loc EXCEPT ![t] = NoLocals]
    /\ UNCHANGED <<heap, allocated, element_count_, skip_list_level_, xsfFrame>>

\* search_element(key, value): lines 143-146, no lock is taken.  A search
\* writes nothing that is shared, so two searches cannot affect one another:
\* the threads search one at a time, among the steps of the writers
SearchCall(t, key) ==
    /\ pc[t] = "idle"
    /\ \A u \in Threads : pc[u] \notin {"search_loop", "search_check", "search_return"}
    /\ Goto(t, "search_loop")
    /\ loc' = [loc EXCEPT ![t] = [NoLocals EXCEPT !.key = key, !.node = header_,
                                                 !.i = skip_list_level_]]
    /\ UNCHANGED <<heap, allocated, element_count_, skip_list_level_, mtx, xsfFrame>>

\* lines 146-155: one test of the while condition, then either the step to
\* the next node or the descent to the next level
SearchStep(t) ==
    /\ pc[t] = "search_loop"
    /\ \E next \in ReadForward(loc[t].node, loc[t].i) :
         \E k \in (IF next = nullptr THEN {DefaultKey} ELSE ReadKey(next)) :
            IF next # nullptr /\ k < loc[t].key
            THEN /\ loc' = [loc EXCEPT ![t].node = next]
                 /\ UNCHANGED pc
            ELSE /\ loc' = [loc EXCEPT ![t].i = loc[t].i - 1]
                 /\ Goto(t, IF loc[t].i - 1 >= 0 THEN "search_loop" ELSE "search_check")
    /\ UNCHANGED <<heap, allocated, element_count_, skip_list_level_, mtx, xsfFrame>>

\* lines 158-165: the level-0 successor, its key and its value; the result
\* is kept in node (nullptr: return false) and value (the out-parameter)
SearchCheck(t) ==
    /\ pc[t] = "search_check"
    /\ \E current \in ReadForward(loc[t].node, 0) :
         \E k \in (IF current = nullptr THEN {DefaultKey} ELSE ReadKey(current)) :
            IF current # nullptr /\ k = loc[t].key
            THEN \E v \in ReadValue(current) :
                    loc' = [loc EXCEPT ![t].node = current, ![t].value = v]
            ELSE loc' = [loc EXCEPT ![t].node = nullptr]
    /\ Goto(t, "search_return")
    /\ UNCHANGED <<heap, allocated, element_count_, skip_list_level_, mtx, xsfFrame>>

\* lines 162, 165: the return
SearchReturn(t) ==
    /\ pc[t] = "search_return"
    /\ Goto(t, "idle")
    /\ loc' = [loc EXCEPT ![t] = NoLocals]
    /\ UNCHANGED <<heap, allocated, element_count_, skip_list_level_, mtx, xsfFrame>>

\* a read of freed memory can end the thread instead
SearchFault(t) ==
    /\ pc[t] \in {"search_loop", "search_check"}
    /\ loc[t].node \notin allocated
    /\ Goto(t, "crashed")
    /\ loc' = [loc EXCEPT ![t] = NoLocals]
    /\ UNCHANGED <<heap, allocated, element_count_, skip_list_level_, mtx, xsfFrame>>

XSFNext ==
    \/ \E t \in Threads, key \in Keys, value \in Values : InsCall(t, key, value)
    \/ \E t \in Threads : InsFind(t)
    \/ \E t \in Threads : InsUpdate(t)
    \/ \E t \in Threads : InsLevel(t)
    \/ \E t \in Threads : InsCreate(t)
    \/ \E t \in Threads : InsSplice(t)
    \/ \E t \in Threads : InsCount(t)
    \/ \E t \in Threads, key \in Keys : DelCall(t, key)
    \/ \E t \in Threads : DelFind(t)
    \/ \E t \in Threads : DelUnlink(t)
    \/ \E t \in Threads : DelAdjust(t)
    \/ \E t \in Threads : DelFree(t)
    \/ \E t \in Threads : DelCount(t)
    \/ \E t \in Threads : XsfUnlock(t)
    \/ \E t \in Threads, key \in Keys : SearchCall(t, key)
    \/ \E t \in Threads : SearchStep(t)
    \/ \E t \in Threads : SearchCheck(t)
    \/ \E t \in Threads : SearchReturn(t)
    \/ \E t \in Threads : SearchFault(t)

XSFSpec == XSFInit /\ [][XSFNext]_vars

(***************************************************************************)
(* Claims checked under XSFSpec.                                           *)
(***************************************************************************)
InSearch(t) == pc[t] \in {"search_loop", "search_check"}

\* C10 (serializable reads of XSFSkipList): a search_element that runs
\* while other threads run insert_element and delete_element never holds,
\* as the node it reads next, a node that delete_element has freed.
C10_SearchNeverInFreedNode ==
    \A t \in Threads : InSearch(t) => loc[t].node \in allocated

(***************************************************************************)
(* LiveSpec: the locked operations of either class under a fair scheduler. *)
(* The list is a SkipList or an XSFSkipList; a thread outside every        *)
(* operation calls one, which blocks until the lock is free, and a thread  *)
(* inside one runs its statements to the return.  search_element takes no  *)
(* lock and is left out.  The operations never read a value, so one value  *)
(* stands for all.                                                         *)
(***************************************************************************)
LiveInit ==
    /\ InitList
    /\ lastOp = NoOp
    /\ mutex_ = Unlocked
    /\ pc = [t \in Threads |-> "idle"]
    /\ loc = [t \in Threads |-> NoLocals]
    /\ range = SharedRange
    /\ written = [k \in Keys |-> nullopt]
    /\ skip_list_level_ = 0
    /\ mtx = Unlocked
    /\ list_class \in {"SkipList", "XSFSkipList"}
    /\ NoRng
    /\ loop = NoLoop

\* the thread's call returns from the constructor of its lock_guard
Enter(t) ==
    /\ list_class = "SkipList"
    /\ \E key \in Keys :
          \/ CallPut(t, key, "a")
          \/ CallGet(t, key)
          \/ CallContains(t, key)
          \/ CallRemove(t, key)

\* the next statement of the operation the thread is in
Run(t) ==
    /\ list_class = "SkipList"
    /\ \/ PutFind(t)
       \/ PutUpdate(t)
       \/ PutLevel(t)
       \/ PutCreate(t)
       \/ PutSplice(t)
       \/ PutCount(t)
       \/ GetFind(t)
       \/ ContainsFind(t)
       \/ RemoveFind(t)
       \/ RemoveDisconnect(t)
       \/ RemoveDelete(t)
       \/ RemoveAdjust(t)
       \/ Return(t)

\* the thread's call returns from mtx.lock()
XsfEnter(t) ==
    /\ list_class = "XSFSkipList"
    /\ \E key \in range[t] :
          \/ InsCall(t, key, "a")
          \/ DelCall(t, key)

XsfRun(t) ==
    /\ list_class = "XSFSkipList"
    /\ \/ InsFind(t)
       \/ InsUpdate(t)
       \/ InsLevel(t)
       \/ InsCreate(t)
       \/ InsSplice(t)
       \/ InsCount(t)
       \/ DelFind(t)
       \/ DelUnlink(t)
       \/ DelAdjust(t)
       \/ DelFree(t)
       \/ DelCount(t)
       \/ XsfUnlock(t)

LiveNext ==
    \/ \E t \in Threads : Enter(t)
    \/ \E t \in Threads : Run(t)
    \/ \E t \in Threads : XsfEnter(t)
    \/ \E t \in Threads : XsfRun(t)

\* a running thread is scheduled (weak fairness of its statements); a thread
\* blocked on the lock gets it if it is free again and again (strong
\* fairness of the acquisition)
LiveSpec ==
    /\ LiveInit
    /\ [][LiveNext]_vars
    /\ \A t \in Threads :
          /\ WF_vars(Run(t) \/ XsfRun(t))
          /\ SF_vars(Enter(t) \/ XsfEnter(t))

SizeRead(t) ==
    /\ pc[t] = "idle"
    /\ Goto(t, "size_return")
    /\ loc' = [loc EXCEPT ![t].i = size(This)]
    /\ UNCHANGED <<listVars, lastOp, mutex_, range, written, xsfVars>>

\* empty(): line 96.  The bool is kept in i (1: true) until the return
EmptyRead(t) ==
    /\ pc[t] = "idle"
    /\ Goto(t, "empty_return")
    /\ loc' = [loc EXCEPT ![t].i = IF empty(This) THEN 1 ELSE 0]
    /\ UNCHANGED <<listVars, lastOp, mutex_, range, written, xsfVars>>

\* the return of size() or empty()
ReadReturn(t) ==
    /\ pc[t] \in {"size_return", "empty_return"}
    /\ Goto(t, "idle")
    /\ loc' = [loc EXCEPT ![t] = NoLocals]
    /\ UNCHANGED <<listVars, lastOp, mutex_, range, written, xsfVars>>

SizeNext ==
    \/ ConcNext
    \/ \E t \in Threads : SizeRead(t)
    \/ \E t \in Threads : EmptyRead(t)
    \/ \E t \in Threads : ReadReturn(t)

SizeSpec == ConcInit /\ [][SizeNext]_vars

(***************************************************************************)
(* Claims checked under SizeSpec.                                          *)
(***************************************************************************)
\* the thread has just read element_count_ in size() or empty()
HasReadCount(t) == pc[t] \in {"size_return", "empty_return"}

\* the thread is in put or remove, past the first link it wrote and before
\* its update of element_count_
MidUpdate(t) == HalfDone(t) \/ pc[t] = "put_count"

\* C12 (element_count_ is lock-protected): no thread has read
\* element_count_ in size() or empty() while another thread is in put or
\* remove between its splice or unlink of the node and its update of
\* element_count_.
C12_CountReadUnderLock ==
    \A t, u \in Threads : (HasReadCount(t) /\ u # t) => ~MidUpdate(u)

(***************************************************************************)
(* TeardownSpec: a list of either class is used and then destroyed.  The   *)
(* destructor runs once, after the last operation has returned; lastOp     *)
(* records it with the addresses it freed (values), the number of delete   *)
(* expressions it executed (n) and the element count it found (n0).        *)
(***************************************************************************)
Destroyed == lastOp.op \in {"~SkipList", "~XSFSkipList"}

\* ~SkipList() {}: the body is empty, and no member's destructor frees what
\* header_ points to (a raw pointer); clear() is never called
Destroy ==
    /\ list_class = "SkipList"
    /\ ~Destroyed
    /\ lastOp' = [NoOp EXCEPT !.op = "~SkipList", !.n0 = element_count_]
    /\ UNCHANGED <<listVars, threadVars, xsfVars>>

\* XSFSkipList::clear(node): the addresses it deletes, in order
RECURSIVE xsf_clear(_, _)
xsf_clear(h, node) ==
    (IF h[node].forward_[0] # nullptr THEN xsf_clear(h, h[node].forward_[0]) ELSE <<>>)
        \o <<node>>

\* ~XSFSkipList(): clear(header_->forward_[0]) if there is one, then
\* delete header_
xsf_destructor(h) ==
    (IF h[header_].forward_[0] # nullptr THEN xsf_clear(h, h[header_].forward_[0]) ELSE <<>>)
        \o <<header_>>

XsfDestroy ==
    /\ list_class = "XSFSkipList"
    /\ ~Destroyed
    /\ \A t \in Threads : pc[t] = "idle"
    /\ LET deleted == xsf_destructor(heap)
           freed == {deleted[j] : j \in 1 .. Len(deleted)}
       IN /\ heap' = [a \in Addrs |-> IF a \in freed THEN NoNode ELSE heap[a]]
          /\ allocated' = allocated \ freed
          /\ lastOp' = [NoOp EXCEPT !.op = "~XSFSkipList", !.n0 = element_count_,
                                    !.n = Len(deleted), !.values = freed]
    /\ UNCHANGED <<current_max_level_, element_count_, threadVars, xsfVars>>

TeardownNext ==
    \/ ~Destroyed /\ list_class = "SkipList" /\ \E key \in Keys, value \in Values : Put(key, value)
    \/ ~Destroyed /\ list_class = "SkipList" /\ \E key \in Keys : Remove(key)
    \/ Destroy
    \/ ~Destroyed /\ \E t \in Threads : XsfEnter(t)
    \/ ~Destroyed /\ \E t \in Threads : XsfRun(t)
    \/ XsfDestroy

TeardownSpec == LiveInit /\ [][TeardownNext]_vars

(***************************************************************************)
(* Claims checked under TeardownSpec.                                      *)
(***************************************************************************)
\* C13 (teardown): once the list is destroyed no node and no header is
\* still allocated, and each was freed exactly once: the destructor
\* executed one delete per node it found on the level-0 chain and one for
\* the header, all on different addresses.
C13_TeardownFreesAll ==
    Destroyed =>
        /\ allocated = {}
        /\ lastOp.n = lastOp.n0 + 1
        /\ Cardinality(lastOp.values) = lastOp.n

(***************************************************************************)
(* RngSpec: three lists of one class in one process, each inserting new    *)
(* keys.  Lists 1 and 2 are built alike (same max_level, same seed) and    *)
(* used alike: their j-th insertions insert the same key.  List 3 is any   *)
(* other list.  A generator is a fixed function of its state; which        *)
(* function is immaterial, a full-period congruential one stands for       *)
(* std::mt19937 and for rand().  Only the levels drawn are followed: with  *)
(* the keys they determine the structure.                                  *)
(***************************************************************************)
Instances == {1, 2, 3}

\* the number of states of a generator
RngModulus == 16

Seeds == 0 .. (RngModulus - 1)

\* the generator's next state
Advance(x) == (5 * x + 3) % RngModulus

RECURSIVE AdvanceBy(_, _)
AdvanceBy(x, n) == IF n = 0 THEN x ELSE AdvanceBy(Advance(x), n - 1)

\* the coin a draw in state x shows: distribution_(gen_), rand() % 2
Coin(x) == 2 * Advance(x) >= RngModulus

\* the coins the next max_level_ + 1 draws show
FlipsFrom(x) == [j \in 1 .. (max_level_ + 1) |-> Coin(AdvanceBy(x, j - 1))]

\* SkipList(max_level, seed): gen_(seed) is a member.  XSFSkipList(max_level)
\* takes no seed and has no generator: rand() is as after srand(1)
RngInit ==
    /\ InitList
    /\ lastOp = NoOp
    /\ mutex_ = Unlocked
    /\ pc = [t \in Threads |-> "idle"]
    /\ loc = [t \in Threads |-> NoLocals]
    /\ range = [t \in Threads |-> {}]
    /\ written = [k \in Keys |-> nullopt]
    /\ skip_list_level_ = 0
    /\ mtx = Unlocked
    /\ list_class \in {"SkipList", "XSFSkipList"}
    /\ \E seed, other \in Seeds :
          gen_ = IF list_class = "SkipList" THEN <<seed, seed, other>> ELSE <<>>
    /\ rand_state = 1
    /\ levels = [inst \in Instances |-> <<>>]
    /\ loop = NoLoop

\* a put of a new key on SkipList inst: line 162
RngPut(inst) ==
    /\ list_class = "SkipList"
    /\ Len(levels[inst]) < MaxKey
    /\ LET flips == FlipsFrom(gen_[inst])
       IN /\ levels' = [levels EXCEPT ![inst] = Append(@, generate_random_level(flips))]
          /\ gen_' = [gen_ EXCEPT ![inst] = AdvanceBy(@, DrawsOf(flips))]
    /\ UNCHANGED <<listVars, lastOp, threadVars, skip_list_level_, mtx, fixedVars,
                   rand_state>>

\* an insert_element of a new key on XSFSkipList inst: line 207
RngInsert(inst) ==
    /\ list_class = "XSFSkipList"
    /\ Len(levels[inst]) < MaxKey
    /\ LET flips == FlipsFrom(rand_state)
       IN /\ levels' = [levels EXCEPT ![inst] = Append(@, get_random_level(flips))]
          /\ rand_state' = AdvanceBy(rand_state, get_random_level(flips) + 1)
    /\ UNCHANGED <<listVars, lastOp, threadVars, skip_list_level_, mtx, fixedVars,
                   gen_>>

RngNext ==
    \/ \E inst \in Instances : RngPut(inst)
    \/ \E inst \in Instances : RngInsert(inst)

RngSpec == RngInit /\ [][RngNext]_vars

(***************************************************************************)
(* Claims checked under RngSpec.                                           *)
(***************************************************************************)
\* C14 (per-instance randomness): lists 1 and 2, built and used alike,
\* assign the same level to the same key (their j-th insertions draw the
\* same level), however the insertions of the lists are interleaved.
C14_SameSeedSameLevels ==
    \A j \in 1 .. MaxKey :
        (j <= Len(levels[1]) /\ j <= Len(levels[2])) => levels[1][j] = levels[2][j]

(***************************************************************************)
(* MutSpec: the operations of Spec that write the list.  get, contains,    *)
(* size and empty leave every node, link and counter as they are, so the   *)
(* lists MutSpec reaches are the lists Spec reaches; the claims below are  *)
(* about the list a put or a remove leaves.                                *)
(***************************************************************************)
MutNext ==
    \/ \E key \in Keys, value \in Values : Put(key, value)
    \/ \E key \in Keys : Remove(key)

MutSpec == Init /\ [][MutNext]_vars

\* the highest level of a node of the chain, 0 for the empty chain
HighestLevel(h, chain) ==
    LET ls == {LevelOf(h, chain[j]) : j \in 1 .. Len(chain)} \cup {0}
    IN CHOOSE l \in ls : \A m \in ls : m <= l

\* C15 (level bookkeeping is tight): after every operation
\* 0 <= current_max_level_ <= max_level_; current_max_level_ is the highest
\* level of a stored node, 0 for the empty list; it is 0 or the header's
\* link at current_max_level_ is set; and the header's link at every level
\* above it is null.
C15_LevelTight ==
    /\ 0 <= current_max_level_
    /\ current_max_level_ <= max_level_
    /\ current_max_level_ = HighestLevel(heap, Chain(heap, 0))
    /\ current_max_level_ = 0 \/ heap[header_].forward_[current_max_level_] # nullptr
    /\ \A i \in 0 .. max_level_ :
          i > current_max_level_ => heap[header_].forward_[i] = nullptr

\* a put on a list that held keys has drawn the top level for a new node,
\* which is the only node there: it raised current_max_level_
C15_Witness ==
    /\ lastOp.op = "put"
    /\ ~lastOp.was
    /\ lastOp.n0 >= 1
    /\ lastOp.draws = max_level_ + 1
    /\ current_max_level_ = max_level_
    /\ Len(Chain(heap, max_level_)) = 1

\* p->forward_[i] is an access to a live node, inside its vector
Deref(S, p, i) == p \in S.allocated /\ i \in DOMAIN S.heap[p].forward_

\* the accesses of move_forward_in_level(current, level, key)
RECURSIVE MoveSafe(_, _, _, _)
MoveSafe(S, current, level, key) ==
    /\ Deref(S, current, level)
    /\ LET next == S.heap[current].forward_[level]
       IN next # nullptr =>
            /\ next \in S.allocated
            /\ S.heap[next].key_ < key => MoveSafe(S, next, level, key)

\* the accesses of the loops of traverse_to_level_zero and
\* traverse_and_collect_predecessors, from level i downwards
RECURSIVE TraverseSafe(_, _, _, _)
TraverseSafe(S, current, i, key) ==
    \/ i < 0
    \/ /\ i <= max_level_
       /\ MoveSafe(S, current, i, key)
       /\ TraverseSafe(S, move_forward_in_level(S.heap, current, i, key), i - 1, key)

\* the accesses of get_target_node and get_node_at_level_zero
TargetSafe(S, predecessor) ==
    /\ Deref(S, predecessor, 0)
    /\ S.heap[predecessor].forward_[0] # nullptr
          => S.heap[predecessor].forward_[0] \in S.allocated

\* the accesses of insert_new_node, whatever the coins show
InsertSafe(S, predecessors) ==
    \A flips \in CoinFlips :
        LET new_level == generate_random_level(flips)
            adj == adjust_max_level_for_insertion(S.current_max_level_, new_level,
                                                  predecessors)
        IN /\ new_level \in 0 .. max_level_
           /\ \A i \in 0 .. new_level :
                 /\ adj.predecessors[i] # nullptr
                 /\ Deref(S, adj.predecessors[i], i)

\* the accesses of disconnect_node_from_levels
DisconnectSafe(S, node, predecessors) ==
    \A i \in 0 .. S.current_max_level_ :
        /\ predecessors[i] # nullptr
        /\ Deref(S, predecessors[i], i)
        /\ S.heap[predecessors[i]].forward_[i] = node => Deref(S, node, i)

\* the accesses of put(key, v), get(key), contains(key) and remove(key)
CallsSafe(S, key) ==
    /\ TraverseSafe(S, header_, S.current_max_level_, key)
    /\ LET predecessors == find_predecessors(S, key)
           node == get_node_at_level_zero(S.heap, predecessors[0], key)
       IN /\ TargetSafe(S, predecessors[0])
          /\ IF node = nullptr
             THEN InsertSafe(S, predecessors)
             ELSE DisconnectSafe(S, node, predecessors)

\* C16 (index safety): in every state, whichever of put, get, contains and
\* remove is called next, with whatever key and whatever coins: the level
\* drawn lies in 0..max_level_, every p->forward_[i] it evaluates has p a
\* live node and i at most p's level, and every predecessors[i] it
\* dereferences is set, the entries above the old current_max_level_
\* included.
C16_IndexSafe == \A key \in Keys : CallsSafe(This, key)

\* a put has given a new node the top level on a list whose other nodes
\* have level 0: its predecessors above level 0 were filled with the header
C16_Witness ==
    /\ lastOp.op = "put"
    /\ ~lastOp.was
    /\ lastOp.n0 >= 2
    /\ lastOp.draws = max_level_ + 1
    /\ Len(Chain(heap, max_level_)) = 1
    /\ Len(Chain(heap, 1)) = 1

\* the positions of chain whose node has a key below key
Below(h, chain, key) == {j \in 1 .. Len(chain) : h[chain[j]].key_ < key}

\* how many nodes of chain come before key: the last position below it
Before(h, chain, key) ==
    LET below == Below(h, chain, key)
    IN IF below = {} THEN 0 ELSE CHOOSE j \in below : \A m \in below : m <= j

\* the last node of the level-i chain with a key below key, or the header
PredecessorAt(h, i, key) ==
    LET chain == Chain(h, i)
        m == Before(h, chain, key)
    IN IF m = 0 THEN header_ ELSE chain[m]

\* chain with node put at the position of key
WithInserted(h, chain, key, node) ==
    LET m == Before(h, chain, key)
    IN SubSeq(chain, 1, m) \o <<node>> \o SubSeq(chain, m + 1, Len(chain))

\* C17: a put of an absent key k that draws level L allocates one node of
\* level L holding k and the value; for each level i in 0..L the level's
\* predecessor (the last node of the old level-i chain with a key below k,
\* or the header) points to the new node and the new node points to what
\* the predecessor pointed to; every other link, and every existing node's
\* key, value and level, is as it was; so each chain of a level in 0..L is
\* the old chain with the new node at k's position and each chain above L
\* is the old chain.
C17_SpliceFrame ==
    [][(lastOp'.op = "put" /\ ~lastOp'.was) =>
         \E node \in NodeAddrs \ allocated :
            LET k == lastOp'.key
                L == LevelOf(heap', node)
                predecessor == [i \in 0 .. max_level_ |-> PredecessorAt(heap, i, k)]
            IN /\ allocated' = allocated \cup {node}
               /\ heap'[node].key_ = k
               /\ heap'[node].value_ = lastOp'.value
               /\ L \in 0 .. max_level_
               /\ \A i \in 0 .. L :
                     /\ heap'[predecessor[i]].forward_[i] = node
                     /\ heap'[node].forward_[i] = heap[predecessor[i]].forward_[i]
                     /\ Chain(heap', i) = WithInserted(heap, Chain(heap, i), k, node)
               /\ \A i \in (L + 1) .. max_level_ : Chain(heap', i) = Chain(heap, i)
               /\ \A a \in allocated :
                     /\ heap'[a].key_ = heap[a].key_
                     /\ heap'[a].value_ = heap[a].value_
                     /\ DOMAIN heap'[a].forward_ = DOMAIN heap[a].forward_
                     /\ \A i \in DOMAIN heap[a].forward_ :
                           (i > L \/ a # predecessor[i])
                              => heap'[a].forward_[i] = heap[a].forward_[i]
               /\ \A a \in Addrs \ (allocated \cup {node}) : heap'[a] = heap[a]
      ]_vars

\* a key was put between two others, at a level above the old
\* current_max_level_'s floor: the new node has a node before it and a node
\* after it at level 0 and is linked at level 1 too
C17_Witness ==
    /\ lastOp.op = "put"
    /\ ~lastOp.was
    /\ lastOp.n0 = 2
    /\ lastOp.draws >= 2
    /\ \E a \in allocated \ {header_} :
          /\ heap[a].key_ = lastOp.key
          /\ LevelOf(heap, a) >= 1
          /\ heap[header_].forward_[0] # a
          /\ heap[a].forward_[0] # nullptr

(***************************************************************************)
(* RefSpec: the operations of Spec, with every put and remove also applied *)
(* to a reference map, written: a put sets the key's entry, a remove       *)
(* deletes it if it is there.                                              *)
(***************************************************************************)
RefPut(key, value) ==
    \E flips \in (IF contains(This, key) THEN {[j \in 1 .. (max_level_ + 1) |-> FALSE]}
                  ELSE CoinFlips) :
        \E r \in {put(This, key, value, flips)} :
           /\ Install(r.list)
           /\ lastOp' = Op("put", key, value, nullopt, FALSE, 0, r.draws, r.list)
           /\ written' = [written EXCEPT ![key] = value]
           /\ UNCHANGED <<mutex_, pc, loc, range, xsfVars>>

RefRemove(key) ==
    \E r \in {remove(This, key)} :
       /\ Install(r.list)
       /\ lastOp' = Op("remove", key, DefaultValue, nullopt, r.ret, 0, 0, r.list)
       /\ written' = [written EXCEPT ![key] = nullopt]
       /\ UNCHANGED <<mutex_, pc, loc, range, xsfVars>>

RefNext ==
    \/ \E key \in Keys, value \in Values : RefPut(key, value)
    \/ \E key \in Keys : Get(key)
    \/ \E key \in Keys : Contains(key)
    \/ \E key \in Keys : RefRemove(key)
    \/ Size
    \/ Empty

RefSpec == Init /\ [][RefNext]_vars

\* the keys the reference map holds
MapKeys(m) == {k \in Keys : m[k] # nullopt}

\* the level-0 chain as a map: each key with the value of its node
ChainMap(h) ==
    [k \in Keys |-> IF \E a \in Holders(h, k) : TRUE
                    THEN h[CHOOSE a \in Holders(h, k) : TRUE].value_
                    ELSE nullopt]

\* what the operation just completed returned is what the reference map
\* returns (a get, contains, size or empty leaves the map as it was); what
\* a get or contains of any key, a size or an empty would return now is
\* what the map returns; the level-0 chain holds the map's entries
AgreesWithMap ==
    /\ lastOp.op = "get" => lastOp.got = written[lastOp.key]
    /\ lastOp.op = "contains" => lastOp.ok = (lastOp.key \in MapKeys(written))
    /\ lastOp.op = "size" => lastOp.n = Cardinality(MapKeys(written))
    /\ lastOp.op = "empty" => lastOp.ok = (MapKeys(written) = {})
    /\ \A k \in Keys : /\ get(This, k) = written[k]
                        /\ contains(This, k) = (k \in MapKeys(written))
    /\ size(This) = Cardinality(MapKeys(written))
    /\ empty(This) = (MapKeys(written) = {})
    /\ \A k \in Keys : Cardinality(Holders(heap, k)) <= 1
    /\ ChainMap(heap) = written
    /\ Len(Chain(heap, 0)) = Cardinality(MapKeys(written))

\* C18: side by side with a reference map, for every coin-flip outcome,
\* every get, contains, size and empty returns what the map returns and
\* the level-0 chain holds the map's keys with their values; every remove
\* returns whether the map held the key; and an operation on key k leaves
\* get(k') as it was for every k' other than k: before and after the step
\* get(k') is the map's entry of k', which the step leaves alone.
C18_RefinesMap ==
    /\ []AgreesWithMap
    /\ [][/\ lastOp'.op = "remove" => lastOp'.ok = (lastOp'.key \in MapKeys(written))
          /\ \A k \in Keys \ {lastOp'.key} : written'[k] = written[k]
         ]_vars

\* a remove returned true and left two keys behind, on a list with more
\* than one level
C18_Witness ==
    /\ lastOp.op = "remove"
    /\ lastOp.ok
    /\ Cardinality(MapKeys(written)) = 2
    /\ element_count_ = 2
    /\ current_max_level_ >= 1

(***************************************************************************)
(* Further claims checked under ConcSpec.                                  *)
(***************************************************************************)
\* thread t is in a remove that has deleted its node and not yet returned:
\* loc[t].node is the pointer to the freed node
HasFreed(t) ==
    /\ pc[t] \in {"remove_adjust", "unlock"}
    /\ loc[t].node # nullptr
    /\ loc[t].node \notin allocated

\* the links of the header and of the live nodes: <<node, level, target>>
Links ==
    UNION {{<<a, i, heap[a].forward_[i]>> : i \in DOMAIN heap[a].forward_} :
              a \in allocated \cup {header_}}

\* C19: when remove has deleted a node, no forward pointer of the header or
\* of a remaining node, at any level, refers to it; every forward pointer
\* of the header and of the live nodes is null or refers to a live node;
\* and a pointer at level i refers to a node whose own level is at least
\* i, so the levels above the deleted node's own held no pointer to it.
C19_NoDangling ==
    /\ \A t \in Threads : HasFreed(t) => \A l \in Links : l[3] # loc[t].node
    /\ \A l \in Links : l[3] = nullptr \/ l[3] \in allocated
    /\ \A l \in Links : l[3] # nullptr => l[2] <= LevelOf(heap, l[3])

\* a remove has deleted its node, which was not the first of the list and
\* was the only node linked at level 1: the loop ran for levels 0 and 1
\* (loc[t].i = 2), and current_max_level_ has been lowered to 0 since
C19_Witness ==
    \E t \in Threads :
        /\ pc[t] = "unlock"
        /\ HasFreed(t)
        /\ loc[t].i = 2
        /\ current_max_level_ = 0
        /\ element_count_ >= 1
        /\ heap[header_].forward_[0] # nullptr
        /\ heap[heap[header_].forward_[0]].key_ < loc[t].key

(***************************************************************************)
(* LoopSpec: put of a new key and remove of a present key on a SkipList of *)
(* any max_level the constructor accepts, followed through the three loops *)
(* whose counter is a uint8_t.  Only what decides how often a loop runs is *)
(* kept: max_level_, current_max_level_, the level drawn and the counter.  *)
(* The loops' bodies index vectors of max_level_ + 1 entries (or, in the   *)
(* splice, of new_level + 1 entries, with i <= new_level), so every value  *)
(* a uint8_t counter takes is a valid index and the body never ends a loop.*)
(***************************************************************************)
\* SkipList(uint8_t max_level, ...): the values of max_level followed
LoopLevels == {0, 1, 2, Uint8Range - 2, Uint8Range - 1}

\* the levels generate_random_level is followed to: the lowest two and the
\* highest two of 0 .. max_level
DrawnLevels(max_level) == {0, 1, max_level - 1, max_level} \cap (0 .. max_level)

\* the bound the loop at l.at compares its counter with
LoopBound(l) == IF l.at = "disconnect" THEN l.current_max_level_ ELSE l.new_level

InLoop(l) == l.at \in {"fill", "splice", "disconnect"}

LoopInit ==
    /\ InitList
    /\ lastOp = NoOp
    /\ mutex_ = Unlocked
    /\ pc = [t \in Threads |-> "idle"]
    /\ loc = [t \in Threads |-> NoLocals]
    /\ range = [t \in Threads |-> {}]
    /\ written = [k \in Keys |-> nullopt]
    /\ skip_list_level_ = 0
    /\ mtx = Unlocked
    /\ list_class = "SkipList"
    /\ NoRng
    /\ \E max_level \in LoopLevels : loop = [NoLoop EXCEPT !.max_level_ = max_level]

LoopFrame ==
    UNCHANGED <<listVars, lastOp, threadVars, skip_list_level_, mtx, list_class, rngVars>>

\* one evaluation of `i <= bound` that holds, the body, and i++; a loop is
\* followed until it has run bound + 2 times
Iterate(l) ==
    [l EXCEPT !.i = Uint8(l.i + 1), !.iterations = l.iterations + 1]

\* put of a new key, lines 162-163 and 182-183: the level is drawn, and
\* `uint8_t i = current_max_level_ + 1` if it is above current_max_level_
LoopPut(new_level) ==
    /\ loop.at = "idle"
    /\ loop.element_count_ < MaxKey
    /\ new_level \in DrawnLevels(loop.max_level_)
    /\ loop' = IF new_level > loop.current_max_level_
               THEN [loop EXCEPT !.new_level = new_level, !.at = "fill",
                                 !.i = Uint8(loop.current_max_level_ + 1),
                                 !.iterations = 0]
               ELSE [loop EXCEPT !.new_level = new_level, !.at = "splice",
                                 !.i = 0, !.iterations = 0]
    /\ LoopFrame

\* lines 183-186: one iteration, or the exit to line 197
LoopFill ==
    /\ loop.at = "fill"
    /\ loop.iterations <= LoopBound(loop) + 1
    /\ loop' = IF loop.i <= loop.new_level
               THEN Iterate(loop)
               ELSE [loop EXCEPT !.current_max_level_ = loop.new_level,
                                 !.at = "splice", !.i = 0, !.iterations = 0]
    /\ LoopFrame

\* lines 197-200 and 169: one iteration, or the exit and element_count_++
LoopSplice ==
    /\ loop.at = "splice"
    /\ loop.iterations <= LoopBound(loop) + 1
    /\ loop' = IF loop.i <= loop.new_level
               THEN Iterate(loop)
               ELSE [loop EXCEPT !.element_count_ = loop.element_count_ + 1,
                                 !.at = "idle", !.i = 0, !.iterations = 0]
    /\ LoopFrame

\* remove of a present key, line 212: `uint8_t i = 0`
LoopRemove ==
    /\ loop.at = "idle"
    /\ loop.element_count_ > 0
    /\ loop' = [loop EXCEPT !.at = "disconnect", !.i = 0, !.iterations = 0]
    /\ LoopFrame

\* lines 212-216, 208 and 90: one iteration, or the exit, element_count_--
\* and adjust_max_level, which lowers current_max_level_ to the highest
\* level a remaining node has (0 when none remains)
LoopDisconnect ==
    /\ loop.at = "disconnect"
    /\ loop.iterations <= LoopBound(loop) + 1
    /\ IF loop.i <= loop.current_max_level_
       THEN loop' = Iterate(loop)
       ELSE \E highest \in {lv \in DrawnLevels(loop.max_level_) :
                               /\ lv <= loop.current_max_level_
                               /\ loop.element_count_ = 1 => lv = 0} :
               loop' = [loop EXCEPT !.current_max_level_ = highest,
                                    !.element_count_ = loop.element_count_ - 1,
                                    !.at = "idle", !.i = 0, !.iterations = 0]
    /\ LoopFrame

LoopNext ==
    \/ \E new_level \in 0 .. (Uint8Range - 1) : LoopPut(new_level)
    \/ LoopFill
    \/ LoopSplice
    \/ LoopRemove
    \/ LoopDisconnect

LoopSpec == LoopInit /\ [][LoopNext]_vars

\* C20: for every max_level in 0..255 and every level drawn, the loops of
\* put and remove whose counter is a uint8_t (the header-predecessor fill,
\* the splice at all levels, the disconnect from levels) run at most
\* bound + 1 times, and their counter never wraps to 0.
C20_LoopsExit ==
    InLoop(loop) =>
        /\ loop.iterations <= LoopBound(loop) + 1
        /\ loop.iterations > 0 => loop.i > 0

====
